---- MODULE Spec2Model ----
(***************************************************************************)
(* Model of the RPKI manifest (MFT) subsystem of rpki-client, mft.c:       *)
(* mft_parse and its helpers (check_validity, mft_parse_econtent,          *)
(* mft_parse_flist, mft_parse_filehash), mft_check, mft_free and the       *)
(* serialization pair mft_buffer / mft_read.                               *)
(*                                                                         *)
(* Characters and bytes are integers (their ASCII / octet value), C        *)
(* strings are sequences of non-zero characters.  A pointer is either NULL *)
(* (the empty tuple) or Ptr(v), the one-element tuple holding the object   *)
(* pointed to.                                                             *)
(***************************************************************************)
EXTENDS Integers, Sequences, FiniteSets

VARIABLES
    now,     \* time(NULL) as seen by check_validity: an instant of
             \* 0..MaxTime, or MaxTime + 1 for one gmtime_r cannot convert
    input,   \* NULL, or Ptr of the arguments/environment of the last mft_parse
    x509,    \* the caller's X509 *: NULL or Ptr(certificate)
    cert,    \* state of the certificate object: "none", "live" or "freed"
    mft,     \* the struct mft * held by the caller: NULL or Ptr(struct mft)
    last,    \* what the last mft_parse went through (return codes, warning)
    heap,    \* the filename strings allocated so far: "live" or "freed" each
    wire,    \* the bytes mft_buffer wrote to the pipe
    rd,      \* the struct mft * returned by mft_read: NULL or Ptr(struct mft)
    disk,    \* the files of the repository directory: path -> digest on disk
    chk,     \* what the last mft_check did: NULL or Ptr of its calls and result
    frame,   \* the locals of a running mft_parse_flist (seq, i), else NULL
    pc       \* "idle", "parsed" or "freed"; inside mft_parse: "window",
             \* "flist", "loop", "stale" or "fail"; "aborted" once an
             \* assertion or err() has ended the process

vars == <<now, input, x509, cert, mft, last, heap, wire, rd, disk, chk, frame, pc>>

(***************************************************************************)
(* Bounds of the model.                                                    *)
(***************************************************************************)
MaxFiles == 2      \* longest raw file list fed to the parser
MaxTime == 2       \* times range over 0..MaxTime

(***************************************************************************)
(* Program constants.                                                      *)
(***************************************************************************)
SHA256_DIGEST_LENGTH == 32
MaxSeqnumOctets == 20
MinSuffixLen == 4
SizeofInt == 4
SizeofSizeT == 8
SLASH == 47
NUL == 0
NID_sha256 == 672
INT_MAX == 2147483647

NULL == <<>>
Ptr(v) == <<v>>
Deref(p) == p[1]

V_ASN1_INTEGER == "INTEGER"
V_ASN1_GENERALIZEDTIME == "GENERALIZEDTIME"
V_ASN1_OBJECT == "OBJECT"
V_ASN1_SEQUENCE == "SEQUENCE"
V_ASN1_IA5STRING == "IA5STRING"
V_ASN1_BIT_STRING == "BIT_STRING"
V_ASN1_OCTET_STRING == "OCTET_STRING"

(***************************************************************************)
(* An ASN1_TYPE: its tag, whether its content decodes (a SEQUENCE through  *)
(* d2i_ASN1_SEQUENCE_ANY, a time through ASN1_time_parse, a version        *)
(* through cms_econtent_version), the sign of an INTEGER, the content      *)
(* octets of a primitive, the elements of a SEQUENCE.                      *)
(***************************************************************************)
ASN1(type, ok, neg, data, seq) ==
    [type |-> type, ok |-> ok, neg |-> neg, data |-> data, seq |-> seq]

Fill(n, b) == [i \in 1..n |-> b]

(***************************************************************************)
(* C string helpers.                                                       *)
(***************************************************************************)
RECURSIVE strnlen(_, _)
strnlen(data, n) ==
    IF n = 0 \/ data = <<>> \/ Head(data) = NUL THEN 0
    ELSE 1 + strnlen(Tail(data), n - 1)

\* strndup(data, n): at most n characters, up to the first NUL.
strndup(data, n) == SubSeq(data, 1, strnlen(data, n))

strlen(s) == Len(s)

\* strchr(s, c) != NULL
strchr(s, c) == \E i \in 1..Len(s) : s[i] = c

\* strrchr(s, c) - s: the 0-based offset of the last c in s, or -1 (NULL).
strrchr(s, c) ==
    IF \E i \in 1..Len(s) : s[i] = c
    THEN (CHOOSE i \in 1..Len(s) : s[i] = c /\ \A j \in (i+1)..Len(s) : s[j] # c) - 1
    ELSE -1

(***************************************************************************)
(* The heap of filename strings: malloc appends a live object and returns  *)
(* its address, free marks it (a second free is recorded as such).         *)
(***************************************************************************)
malloc(h) == Append(h, "live")

free(h, a) ==
    [h EXCEPT ![a] = IF h[a] = "live" THEN "freed" ELSE "double-free"]

\* A heap string: its address and its characters.
Str(a, s) == [addr |-> a, str |-> s]

(***************************************************************************)
(* Validity Evaluator.                                                     *)
(***************************************************************************)

\* generalizedtime_to_tm: 1 and the calendar time when the string parses,
\* 0 otherwise.
generalizedtime_to_tm(gtime) ==
    IF gtime.ok THEN [rc |-> 1, tm |-> gtime.data[1]] ELSE [rc |-> 0, tm |-> 0]

\* gmtime_r: the calendar time of the instant t, or NULL when its year does
\* not fit struct tm (in the model: the instants after MaxTime, later than
\* every time a GeneralizedTime can hold).
gmtime_r(t) == IF t > MaxTime THEN NULL ELSE Ptr(t)

\* ASN1_time_tm_cmp: <0, 0, >0.
ASN1_time_tm_cmp(tm1, tm2) ==
    IF tm1 < tm2 THEN -1 ELSE IF tm1 > tm2 THEN 1 ELSE 0

\* check_validity with the expiry test made first.
check_validity_swapped(from, until, tnow) ==
    LET n == gmtime_r(tnow)
        f == generalizedtime_to_tm(from)
        u == generalizedtime_to_tm(until)
    IN  IF n = NULL THEN [rc |-> -1, warn |-> "could not get current time"]
        ELSE IF f.rc = 0 THEN [rc |-> -1, warn |-> "embedded from time format invalid"]
        ELSE IF u.rc = 0 THEN [rc |-> -1, warn |-> "embedded until time format invalid"]
        ELSE IF ASN1_time_tm_cmp(u.tm, Deref(n)) < 0
             THEN [rc |-> 0, warn |-> "mft expired"]
        ELSE IF ASN1_time_tm_cmp(u.tm, f.tm) < 0
             THEN [rc |-> -1, warn |-> "bad update interval"]
        ELSE IF ASN1_time_tm_cmp(f.tm, Deref(n)) > 0
             THEN [rc |-> -1, warn |-> "mft not yet valid"]
        ELSE [rc |-> 1, warn |-> ""]

\* check_validity: 1 if all is good, 0 if the mft is stale, -1 otherwise.
check_validity(from, until, tnow) ==
    LET n == gmtime_r(tnow)
        f == generalizedtime_to_tm(from)
        u == generalizedtime_to_tm(until)
    IN  IF n = NULL THEN [rc |-> -1, warn |-> "could not get current time"]
        ELSE IF f.rc = 0 THEN [rc |-> -1, warn |-> "embedded from time format invalid"]
        ELSE IF u.rc = 0 THEN [rc |-> -1, warn |-> "embedded until time format invalid"]
        ELSE IF ASN1_time_tm_cmp(u.tm, f.tm) < 0
             THEN [rc |-> -1, warn |-> "bad update interval"]
        ELSE IF ASN1_time_tm_cmp(f.tm, Deref(n)) > 0
             THEN [rc |-> -1, warn |-> "mft not yet valid"]
        ELSE IF ASN1_time_tm_cmp(u.tm, Deref(n)) < 0
             THEN [rc |-> 0, warn |-> "mft expired"]
        ELSE [rc |-> 1, warn |-> ""]

(***************************************************************************)
(* Big numbers: a sign and the magnitude octets, most significant first,   *)
(* without leading zero octets.                                            *)
(***************************************************************************)
RECURSIVE StripZeros(_)
StripZeros(data) ==
    IF data # <<>> /\ Head(data) = 0 THEN StripZeros(Tail(data)) ELSE data

ASN1_INTEGER_to_BN(ai) ==
    LET mag == StripZeros(ai.data)
    IN  [neg |-> ai.neg /\ mag # <<>>, mag |-> mag]

BN_is_negative(bn) == bn.neg

BN_num_bytes(bn) == Len(bn.mag)

\* The ASCII character of one hexadecimal digit, upper case.
HexChar(d) == IF d < 10 THEN 48 + d ELSE 55 + d

\* BN_bn2hex: "0" for zero, else two digits per octet, "-" first if negative.
BN_bn2hex(bn) ==
    LET n == Len(bn.mag)
        digits == [i \in 1..(2 * n) |->
                     LET b == bn.mag[(i + 1) \div 2]
                     IN  IF i % 2 = 1 THEN HexChar(b \div 16) ELSE HexChar(b % 16)]
    IN  IF n = 0 THEN <<48>>
        ELSE IF bn.neg THEN <<45>> \o digits ELSE digits

(***************************************************************************)
(* struct mft and struct mftfile.                                          *)
(***************************************************************************)
\* calloc(1, sizeof(struct mftfile))
ZeroFile == [file |-> NULL, hash |-> Fill(SHA256_DIGEST_LENGTH, 0)]

\* calloc(1, sizeof(struct mft))
ZeroMft ==
    [stale |-> 0, file |-> NULL, files |-> NULL, filesz |-> 0,
     seqnum |-> NULL, aia |-> NULL, aki |-> NULL, ski |-> NULL]

d2i_ASN1_SEQUENCE_ANY(os) == IF os.ok THEN Ptr(os.seq) ELSE NULL

(***************************************************************************)
(* File List Decoder.                                                      *)
(***************************************************************************)
Fail(res, h, warn) == [rc |-> 0, res |-> res, heap |-> h, warn |-> warn]

\* mft_parse_filehash without the suffix-length test and with the digest
\* length only bounded from below.
mft_parse_filehash_nolen(res, h, os) ==
    LET seq == d2i_ASN1_SEQUENCE_ANY(os)
    IN  IF seq = NULL THEN Fail(res, h, "FileAndHash: failed ASN.1 sequence parse")
        ELSE IF Len(Deref(seq)) # 2 THEN Fail(res, h, "FileAndHash: want 2 elements")
        ELSE
        LET file == Deref(seq)[1]
            hash == Deref(seq)[2]
        IN  IF file.type # V_ASN1_IA5STRING
            THEN Fail(res, h, "FileAndHash: want ASN.1 IA5 string")
            ELSE
            LET fn == strndup(file.data, Len(file.data))
                h1 == malloc(h)
                a == Len(h1)
            IN  IF strchr(fn, SLASH)
                THEN Fail(res, free(h1, a), "path components disallowed in filename")
                ELSE IF hash.type # V_ASN1_BIT_STRING
                THEN Fail(res, free(h1, a), "FileAndHash: want ASN.1 bit string")
                ELSE IF Len(hash.data) < SHA256_DIGEST_LENGTH
                THEN Fail(res, free(h1, a), "hash: invalid SHA256 length")
                ELSE
                    [rc |-> 1,
                     res |-> [res EXCEPT
                         !.filesz = @ + 1,
                         !.files = Ptr([Deref(@) EXCEPT ![res.filesz + 1] =
                             [file |-> Ptr(Str(a, fn)),
                              hash |-> SubSeq(hash.data, 1, SHA256_DIGEST_LENGTH)]])],
                     heap |-> h1,
                     warn |-> ""]

\* mft_parse_filehash: one FileAndHash appended to res.files, or failure.
mft_parse_filehash(res, h, os) ==
    LET seq == d2i_ASN1_SEQUENCE_ANY(os)
    IN  IF seq = NULL THEN Fail(res, h, "FileAndHash: failed ASN.1 sequence parse")
        ELSE IF Len(Deref(seq)) # 2 THEN Fail(res, h, "FileAndHash: want 2 elements")
        ELSE
        LET file == Deref(seq)[1]
            hash == Deref(seq)[2]
        IN  IF file.type # V_ASN1_IA5STRING
            THEN Fail(res, h, "FileAndHash: want ASN.1 IA5 string")
            ELSE
            LET fn == strndup(file.data, Len(file.data))
                h1 == malloc(h)
                a == Len(h1)
            IN  IF strchr(fn, SLASH)
                THEN Fail(res, free(h1, a), "path components disallowed in filename")
                ELSE IF strlen(fn) <= MinSuffixLen
                THEN Fail(res, free(h1, a), "filename must be large enough for suffix part")
                ELSE IF hash.type # V_ASN1_BIT_STRING
                THEN Fail(res, free(h1, a), "FileAndHash: want ASN.1 bit string")
                ELSE IF Len(hash.data) # SHA256_DIGEST_LENGTH
                THEN Fail(res, free(h1, a), "hash: invalid SHA256 length")
                ELSE
                    [rc |-> 1,
                     res |-> [res EXCEPT
                         !.filesz = @ + 1,
                         !.files = Ptr([Deref(@) EXCEPT ![res.filesz + 1] =
                             [file |-> Ptr(Str(a, fn)),
                              hash |-> SubSeq(hash.data, 1, SHA256_DIGEST_LENGTH)]])],
                     heap |-> h1,
                     warn |-> ""]

\* The loop of mft_parse_flist from element i (0-based) on; flist_next
\* is the loop once mft_parse_filehash has returned r for element i.
RECURSIVE flist_loop(_, _, _, _)
RECURSIVE flist_next(_, _, _)
\* The loop going on to the next element after a rejected one.
flist_next_skip(seq, i, r) == flist_loop(seq, i + 1, r.res, r.heap)

flist_next(seq, i, r) ==
    IF r.rc = 0 THEN r ELSE flist_loop(seq, i + 1, r.res, r.heap)

flist_loop(seq, i, res, h) ==
    IF ~(i < Len(seq)) THEN [rc |-> 1, res |-> res, heap |-> h, warn |-> ""]
    ELSE IF seq[i + 1].type # V_ASN1_SEQUENCE
    THEN Fail(res, h, "fileList: want ASN.1 sequence")
    ELSE flist_next(seq, i, mft_parse_filehash(res, h, seq[i + 1]))

\* The array allocated one entry short of the list.
flist_calloc_short(res, n) ==
    [res EXCEPT !.files = Ptr([k \in 1..(n - 1) |-> ZeroFile])]

\* p->res->files = calloc(sk_ASN1_TYPE_num(seq), sizeof(struct mftfile))
flist_calloc(res, n) ==
    [res EXCEPT !.files = Ptr([k \in 1..n |-> ZeroFile])]

\* mft_parse_flist: the array is allocated for every element of the list,
\* then filled one element at a time.
mft_parse_flist(res, h, os) ==
    LET seq == d2i_ASN1_SEQUENCE_ANY(os)
    IN  IF seq = NULL THEN Fail(res, h, "fileList: failed ASN.1 sequence parse")
        ELSE flist_loop(Deref(seq), 0, flist_calloc(res, Len(Deref(seq))), h)

(***************************************************************************)
(* Manifest Content Decoder.                                               *)
(***************************************************************************)
EFail(res, h, warn) ==
    [rc |-> -1, res |-> res, heap |-> h, warn |-> warn, validity |-> NULL]

\* cms_econtent_version: -1 when the field does not decode, else the value.
cms_econtent_version(t) ==
    IF t.ok THEN [rc |-> 0, version |-> t.data[1]] ELSE [rc |-> -1, version |-> 0]

\* if (BN_num_bytes(mft_seqnum) >= 20): the bound made exclusive.
seqnum_too_long_excl(bn) == BN_num_bytes(bn) >= MaxSeqnumOctets

\* if (BN_num_bytes(mft_seqnum) > 20)
seqnum_too_long(bn) == BN_num_bytes(bn) > MaxSeqnumOctets

\* The end of mft_parse_econtent: r is what mft_parse_flist returned.
econtent_end(r, validity) ==
    [rc |-> IF r.rc = 0 THEN -1 ELSE 1, res |-> r.res,
     heap |-> r.heap, warn |-> r.warn, validity |-> validity]

\* mft_parse_econtent after the optional version field: i is the 0-based
\* index of the manifestNumber.
econtent_body(seq, i, res, h, tnow) ==
    LET tnum == seq[i + 1]
    IN  IF tnum.type # V_ASN1_INTEGER
        THEN EFail(res, h, "manifestNumber: want ASN.1 integer")
        ELSE
        LET mft_seqnum == ASN1_INTEGER_to_BN(tnum)
        IN  IF BN_is_negative(mft_seqnum)
            THEN EFail(res, h, "manifestNumber: want positive integer, have negative")
            ELSE IF seqnum_too_long(mft_seqnum)
            THEN EFail(res, h, "manifestNumber: want 20 or less than octets, have more")
            ELSE
            LET res1 == [res EXCEPT !.seqnum = Ptr(BN_bn2hex(mft_seqnum))]
                tfrom == seq[i + 2]
                tuntil == seq[i + 3]
            IN  IF tfrom.type # V_ASN1_GENERALIZEDTIME
                THEN EFail(res1, h, "thisUpdate: want ASN.1 generalised time")
                ELSE IF tuntil.type # V_ASN1_GENERALIZEDTIME
                THEN EFail(res1, h, "nextUpdate: want ASN.1 generalised time")
                ELSE
                LET v == check_validity(tfrom, tuntil, tnow)
                    talg == seq[i + 4]
                    tlist == seq[i + 5]
                IN  IF v.rc # 1
                    THEN [rc |-> v.rc, res |-> res1, heap |-> h, warn |-> v.warn,
                          validity |-> Ptr(v.rc)]
                    ELSE IF talg.type # V_ASN1_OBJECT
                    THEN [EFail(res1, h, "fileHashAlg: want ASN.1 object")
                            EXCEPT !.validity = Ptr(v.rc)]
                    ELSE IF talg.data[1] # NID_sha256
                    THEN [EFail(res1, h, "fileHashAlg: want SHA256 object")
                            EXCEPT !.validity = Ptr(v.rc)]
                    ELSE IF tlist.type # V_ASN1_SEQUENCE
                    THEN [EFail(res1, h, "fileList: want ASN.1 sequence")
                            EXCEPT !.validity = Ptr(v.rc)]
                    ELSE econtent_end(mft_parse_flist(res1, h, tlist), Ptr(v.rc))

\* The switch with "case 0" accepting the explicit default version.
version_switch_accept0(mft_version) ==
    IF mft_version = 0
    THEN [out |-> FALSE, warn |-> ""]
    ELSE [out |-> TRUE, warn |-> "version not supported (yet)"]

\* switch (mft_version): whether the case jumps to out, and its warning.
version_switch(mft_version) ==
    IF mft_version = 0
    THEN [out |-> TRUE, warn |-> "incorrect encoding for version 0"]
    ELSE [out |-> TRUE, warn |-> "version not supported (yet)"]

\* sk_ASN1_TYPE_num(seq) != 5 && sk_ASN1_TYPE_num(seq) != 6
bad_element_count(n) == n # 5 /\ n # 6

\* mft_parse_econtent: <0 on failure, 0 on stale, >0 on success.
mft_parse_econtent(d, res, h, tnow) ==
    LET seq == d2i_ASN1_SEQUENCE_ANY(d)
    IN  IF seq = NULL THEN EFail(res, h, "Manifest: failed ASN.1 sequence parse")
        ELSE IF bad_element_count(Len(Deref(seq)))
        THEN EFail(res, h, "Manifest: want 5 or 6 elements")
        ELSE IF Len(Deref(seq)) = 6
        THEN LET ver == cms_econtent_version(Deref(seq)[1])
                 sw == version_switch(ver.version)
             IN  IF ver.rc = -1 THEN EFail(res, h, "version: failed to decode")
                 ELSE IF sw.out THEN EFail(res, h, sw.warn)
                 ELSE econtent_body(Deref(seq), 1, res, h, tnow)
        ELSE econtent_body(Deref(seq), 0, res, h, tnow)

(***************************************************************************)
(* Lifecycle Manager.                                                      *)
(***************************************************************************)
\* for (i = from; i < filesz; i++) free(files[i].file)
RECURSIVE free_files(_, _, _, _)
free_files(files, i, filesz, h) ==
    IF ~(i < filesz) THEN h
    ELSE free_files(files, i + 1, filesz,
             IF files[i + 1].file = NULL THEN h
             ELSE free(h, Deref(files[i + 1].file).addr))

\* mft_free without the loop over the filenames.
mft_free_leak(p, h) == h

\* mft_free: the heap once p is released; safe to call with NULL.
mft_free(p, h) ==
    IF p = NULL THEN h
    ELSE IF Deref(p).files # NULL
    THEN free_files(Deref(Deref(p).files), 0, Deref(p).filesz, h)
    ELSE h

\* The stale branch without "p.res->stale = 1".
strip_stale_unmarked(res, h) ==
    [res |-> [res EXCEPT !.filesz = 0, !.files = NULL],
     heap |-> IF res.files # NULL
              THEN free_files(Deref(res.files), 0, res.filesz, h)
              ELSE h]

\* The stale branch of mft_parse.
strip_stale(res, h) ==
    [res |-> [res EXCEPT !.stale = 1, !.filesz = 0, !.files = NULL],
     heap |-> IF res.files # NULL
              THEN free_files(Deref(res.files), 0, res.filesz, h)
              ELSE h]

\* cms_parse_validate: the eContent and the signing certificate, or NULL.
cms_parse_validate(env) ==
    IF env.unwrap_ok THEN [cms |-> Ptr(env.econtent), x509 |-> Ptr(env.cert)]
    ELSE [cms |-> NULL, x509 |-> NULL]

x509_get_aia(x) == x.aia
x509_get_aki(x) == x.aki
x509_get_ski(x) == x.ski

\* The test with && for ||: fails only when all three are absent.
missing_ext_all(res) == res.aia = NULL /\ res.aki = NULL /\ res.ski = NULL

\* p.res->aia == NULL || p.res->aki == NULL || p.res->ski == NULL
missing_ext(res) == res.aia = NULL \/ res.aki = NULL \/ res.ski = NULL

\* What mft_parse hands back: the return value, *x509, the state of the
\* certificate object, the heap, and what it went through (the struct as
\* built before the exit path, the return code of mft_parse_econtent and of
\* check_validity when they were reached, the warning printed).
ParseOut(ret, x, cst, h, built, c, validity, warn) ==
    [ret |-> ret, x509 |-> x, cert |-> cst, heap |-> h, built |-> built,
     c |-> c, validity |-> validity, warn |-> warn]

\* The end of mft_parse: e is what mft_parse_econtent returned, x the
\* certificate pointer set by cms_parse_validate.
mft_parse_end(x, e) ==
    IF e.rc = 0
    THEN LET s == strip_stale(e.res, e.heap)
         IN  ParseOut(Ptr(s.res), x, "live", s.heap, Ptr(e.res),
                      Ptr(e.rc), e.validity, e.warn)
    ELSE IF e.rc = -1
    THEN ParseOut(NULL, NULL, "freed", mft_free(Ptr(e.res), e.heap),
                  Ptr(e.res), Ptr(e.rc), e.validity, e.warn)
    ELSE ParseOut(Ptr(e.res), x, "live", e.heap, Ptr(e.res),
                  Ptr(e.rc), e.validity, e.warn)

mft_parse(fn, env, tnow, h) ==
    LET u == cms_parse_validate(env)
    IN  IF u.cms = NULL
        THEN ParseOut(NULL, u.x509, "none", h, NULL, NULL, NULL, "cms_parse_validate failed")
        ELSE
        LET x == Deref(u.x509)
            res0 == [ZeroMft EXCEPT !.file = Ptr(fn),
                                    !.aia = x509_get_aia(x),
                                    !.aki = x509_get_aki(x),
                                    !.ski = x509_get_ski(x)]
        IN  IF missing_ext(res0)
            THEN ParseOut(NULL, NULL, "freed", mft_free(Ptr(res0), h), Ptr(res0),
                          NULL, NULL, "missing AIA, AKI or SKI X509 extension")
            ELSE mft_parse_end(u.x509,
                               mft_parse_econtent(Deref(u.cms), res0, h, tnow))

(***************************************************************************)
(* Digest Verifier.                                                        *)
(***************************************************************************)
\* valid_filehash: the file at path exists and its digest is hash.
valid_filehash(dsk, path, hash) ==
    path \in DOMAIN dsk /\ dsk[path] = hash

\* asprintf(&path, "%.*s/%s", (int)(cp - fn), fn, m->file): -1 when the
\* result would be longer than INT_MAX, else its length and the string.
mft_check_path(fn, cp, file) ==
    IF strlen(file) > INT_MAX - cp - 1
    THEN [rc |-> -1, path |-> NULL]
    ELSE [rc |-> cp + 1 + strlen(file),
          path |-> Ptr(SubSeq(fn, 1, cp) \o <<SLASH>> \o file)]

\* The loop of mft_check from entry i (0-based) on; r holds rc, the calls
\* made to valid_filehash and the entries warned about.  When asprintf
\* fails err() ends the process at once: abort says so.
RECURSIVE check_loop(_, _, _, _, _, _)
check_loop(fn, cp, p, dsk, i, r) ==
    IF ~(i < p.filesz) THEN r
    ELSE
    LET m == Deref(p.files)[i + 1]
        a == mft_check_path(fn, cp, Deref(m.file).str)
    IN  IF a.rc = -1 THEN [r EXCEPT !.abort = Ptr("err(1, NULL)")]
        ELSE
        LET path == Deref(a.path)
            good == valid_filehash(dsk, path, m.hash)
        IN  check_loop(fn, cp, p, dsk, i + 1,
                [rc |-> IF good THEN r.rc ELSE 0,
                 calls |-> Append(r.calls, [path |-> path, hash |-> m.hash]),
                 warned |-> IF good THEN r.warned ELSE Append(r.warned, i),
                 abort |-> r.abort])

\* The loop leaving at the first bad digest.
RECURSIVE check_loop_abort(_, _, _, _, _, _)
check_loop_abort(fn, cp, p, dsk, i, r) ==
    IF ~(i < p.filesz) \/ r.rc = 0 THEN r
    ELSE
    LET m == Deref(p.files)[i + 1]
        a == mft_check_path(fn, cp, Deref(m.file).str)
    IN  IF a.rc = -1 THEN [r EXCEPT !.abort = Ptr("err(1, NULL)")]
        ELSE
        LET path == Deref(a.path)
            good == valid_filehash(dsk, path, m.hash)
        IN  check_loop_abort(fn, cp, p, dsk, i + 1,
                [rc |-> IF good THEN r.rc ELSE 0,
                 calls |-> Append(r.calls, [path |-> path, hash |-> m.hash]),
                 warned |-> IF good THEN r.warned ELSE Append(r.warned, i),
                 abort |-> r.abort])

mft_check_abort(fn, p, dsk) ==
    check_loop_abort(fn, strrchr(fn, SLASH), p, dsk, 0,
                     [rc |-> 1, calls |-> <<>>, warned |-> <<>>, abort |-> NULL])

\* mft_check: zero on failure, non-zero on success.  A failed assertion
\* ends the process before any entry is looked at, a failed asprintf at its
\* entry: abort names what ended it, and rc is the local as it stood
\* (nothing is returned).
mft_check(fn, p, dsk) ==
    IF strrchr(fn, SLASH) = -1
    THEN [rc |-> 1, calls |-> <<>>, warned |-> <<>>, abort |-> Ptr("cp != NULL")]
    ELSE IF ~(strrchr(fn, SLASH) < INT_MAX)
    THEN [rc |-> 1, calls |-> <<>>, warned |-> <<>>,
          abort |-> Ptr("cp - fn < INT_MAX")]
    ELSE check_loop(fn, strrchr(fn, SLASH), p, dsk, 0,
                    [rc |-> 1, calls |-> <<>>, warned |-> <<>>, abort |-> NULL])

(***************************************************************************)
(* Serialization Codec.  The pipe carries octets; integers are written in  *)
(* the machine's byte order (least significant first), a string as its     *)
(* length (a size field) followed by its characters, NULL as length 0.     *)
(***************************************************************************)
RECURSIVE EncInt(_, _)
EncInt(v, n) == IF n = 0 THEN <<>> ELSE <<v % 256>> \o EncInt(v \div 256, n - 1)

RECURSIVE DecInt(_)
DecInt(bytes) ==
    IF bytes = <<>> THEN 0 ELSE Head(bytes) + 256 * DecInt(Tail(bytes))

io_simple_buffer(b, bytes) == b \o bytes

io_str_buffer(b, p) ==
    LET str == IF p = NULL THEN <<>> ELSE Deref(p)
    IN  b \o EncInt(Len(str), SizeofSizeT) \o str

io_simple_read(fd, n) ==
    [val |-> SubSeq(fd, 1, n), fd |-> SubSeq(fd, n + 1, Len(fd))]

io_str_read(fd) ==
    LET sz == io_simple_read(fd, SizeofSizeT)
        n == DecInt(sz.val)
        body == io_simple_read(sz.fd, n)
    IN  IF n = 0 THEN [val |-> NULL, fd |-> sz.fd]
        ELSE [val |-> Ptr(body.val), fd |-> body.fd]

\* The loop of mft_buffer from entry i (0-based) on.
RECURSIVE buffer_loop(_, _, _)
buffer_loop(b, p, i) ==
    IF ~(i < p.filesz) THEN b
    ELSE
    LET m == Deref(p.files)[i + 1]
        b1 == io_str_buffer(b, Ptr(Deref(m.file).str))
        b2 == io_simple_buffer(b1, m.hash)
    IN  buffer_loop(b2, p, i + 1)

\* mft_buffer writing the key identifier before the access location.
mft_buffer_swapped(b, p) ==
    LET b1 == io_simple_buffer(b, EncInt(p.stale, SizeofInt))
        b2 == io_str_buffer(b1, p.file)
        b3 == io_simple_buffer(b2, EncInt(p.filesz, SizeofSizeT))
        b4 == buffer_loop(b3, p, 0)
        b5 == io_str_buffer(b4, p.aki)
        b6 == io_str_buffer(b5, p.aia)
    IN  io_str_buffer(b6, p.ski)

\* mft_buffer: the buffer b with the manifest p appended.
mft_buffer(b, p) ==
    LET b1 == io_simple_buffer(b, EncInt(p.stale, SizeofInt))
        b2 == io_str_buffer(b1, p.file)
        b3 == io_simple_buffer(b2, EncInt(p.filesz, SizeofSizeT))
        b4 == buffer_loop(b3, p, 0)
        b5 == io_str_buffer(b4, p.aia)
        b6 == io_str_buffer(b5, p.aki)
    IN  io_str_buffer(b6, p.ski)

\* The loop of mft_read from entry i (0-based) on.
RECURSIVE read_loop(_, _, _, _)
read_loop(fd, p, h, i) ==
    IF ~(i < p.filesz) THEN [fd |-> fd, p |-> p, heap |-> h]
    ELSE
    LET f == io_str_read(fd)
        hh == io_simple_read(f.fd, SHA256_DIGEST_LENGTH)
        h1 == IF f.val = NULL THEN h ELSE malloc(h)
        ent == [file |-> IF f.val = NULL THEN NULL
                         ELSE Ptr(Str(Len(h1), Deref(f.val))),
                hash |-> hh.val]
    IN  read_loop(hh.fd, [p EXCEPT !.files = Ptr([Deref(@) EXCEPT ![i + 1] = ent])],
                  h1, i + 1)

\* The end of mft_read: l is what the loop left, aia, aki and ski what the
\* three io_str_read gave.
mft_read_end(l, aia, aki, ski) ==
    IF aia.val = NULL \/ aki.val = NULL \/ ski.val = NULL
    THEN [p |-> NULL, fd |-> ski.fd, heap |-> l.heap,
          abort |-> Ptr("p->aia && p->aki && p->ski")]
    ELSE [p |-> Ptr([l.p EXCEPT !.aia = aia.val, !.aki = aki.val, !.ski = ski.val]),
          fd |-> ski.fd, heap |-> l.heap, abort |-> NULL]

\* mft_read after assert(p->file): st and fl are the stale flag and the
\* source path read.
mft_read_body(st, fl, sz, h) ==
    LET p0 == [ZeroMft EXCEPT !.stale = DecInt(st.val),
                              !.file = fl.val,
                              !.filesz = DecInt(sz.val),
                              !.files = Ptr([k \in 1..DecInt(sz.val) |-> ZeroFile])]
        l == read_loop(sz.fd, p0, h, 0)
        aia == io_str_read(l.fd)
        aki == io_str_read(aia.fd)
        ski == io_str_read(aki.fd)
    IN  mft_read_end(l, aia, aki, ski)

\* mft_read: the pointer to the manifest read from the descriptor, what is
\* left in the pipe, and the heap.  A failed assertion ends the process:
\* abort names it and no manifest is returned.
mft_read(fd, h) ==
    LET st == io_simple_read(fd, SizeofInt)
        fl == io_str_read(st.fd)
    IN  IF fl.val = NULL
        THEN [p |-> NULL, fd |-> fl.fd, heap |-> h, abort |-> Ptr("p->file")]
        ELSE mft_read_body(st, fl, io_simple_read(fl.fd, SizeofSizeT), h)

(***************************************************************************)
(* The inputs the model feeds to mft_parse.                                *)
(***************************************************************************)
SeqsUpTo(S, n) == UNION {[1..k -> S] : k \in 0..n}

\* Manifest paths: "r/m" and "r/d/m".
FnShort == <<114, 47, 109>>
FnDeep == <<114, 47, 100, 47, 109>>

NameA == <<97, 97, 97, 97, 97>>                    \* "aaaaa"
NameB == <<98, 98, 46, 114, 111, 97>>              \* "bb.roa"
NameNulOk == <<99, 99, 99, 99, 99, 0, 47, 120>>    \* "ccccc\0/x"
NameSlash == <<97, 97, 47, 97, 97, 97>>            \* "aa/aaa"
NameShort == <<97, 46, 99, 114>>                   \* "a.cr"
NameNulShort == <<97, 98, 0, 99, 100, 101, 102>>   \* "ab\0cdef"

H1 == Fill(SHA256_DIGEST_LENGTH, 1)
H2 == Fill(SHA256_DIGEST_LENGTH, 2)

IA5(str) == ASN1(V_ASN1_IA5STRING, TRUE, FALSE, str, <<>>)
Bits(data) == ASN1(V_ASN1_BIT_STRING, TRUE, FALSE, data, <<>>)
Octets(data) == ASN1(V_ASN1_OCTET_STRING, TRUE, FALSE, data, <<>>)
Integer(neg, data) == ASN1(V_ASN1_INTEGER, TRUE, neg, data, <<>>)
Time(t) == ASN1(V_ASN1_GENERALIZEDTIME, TRUE, FALSE, <<t>>, <<>>)
BadTime == ASN1(V_ASN1_GENERALIZEDTIME, FALSE, FALSE, <<>>, <<>>)
Oid(nid) == ASN1(V_ASN1_OBJECT, TRUE, FALSE, <<nid>>, <<>>)
Sequence(elems) == ASN1(V_ASN1_SEQUENCE, TRUE, FALSE, <<>>, elems)
BadSequence == ASN1(V_ASN1_SEQUENCE, FALSE, FALSE, <<>>, <<>>)

FileAndHash(name, hash) == Sequence(<<IA5(name), Bits(hash)>>)

GoodEntries ==
    {FileAndHash(NameA, H1), FileAndHash(NameB, H2), FileAndHash(NameNulOk, H1)}

BadEntries ==
    {FileAndHash(NameSlash, H1), FileAndHash(NameShort, H1),
     FileAndHash(NameNulShort, H1),
     FileAndHash(NameA, Fill(SHA256_DIGEST_LENGTH - 1, 1)),
     FileAndHash(NameA, Fill(SHA256_DIGEST_LENGTH + 1, 1)),
     Sequence(<<Octets(NameA), Bits(H1)>>),
     Sequence(<<IA5(NameA), Octets(H1)>>),
     Sequence(<<IA5(NameA), Bits(H1), Bits(H2)>>),
     BadSequence,
     Integer(FALSE, <<1>>)}

\* Raw file lists: every list of well-formed entries, and every such list
\* cut by one bad entry at any position, alone or followed by a good entry.
GoodLists == SeqsUpTo(GoodEntries, MaxFiles)

CutLists ==
    {l \o <<b>> \o t :
        l \in SeqsUpTo(GoodEntries, MaxFiles - 1),
        b \in BadEntries,
        t \in {<<>>, <<FileAndHash(NameA, H1)>>}}

FileLists ==
    {Sequence(l) : l \in GoodLists \cup {c \in CutLists : Len(c) <= MaxFiles}}
    \cup {BadSequence, Octets(<<1>>)}

Times == {Time(t) : t \in 0..MaxTime}

\* The values of time(NULL): the instants the time fields can name, and one
\* beyond what gmtime_r converts.
Nows == 0..(MaxTime + 1)

\* SHA-256, some other algorithm, and a field that is no object identifier.
Algs == {Oid(NID_sha256), Oid(NID_sha256 + 1), Integer(FALSE, <<1>>)}

SeqZero == Integer(FALSE, <<0>>)
SeqByte == Integer(FALSE, <<171>>)
SeqMax == Integer(FALSE, <<1>> \o Fill(MaxSeqnumOctets - 1, 255))
SeqOver == Integer(FALSE, <<1>> \o Fill(MaxSeqnumOctets, 0))
SeqNeg == Integer(TRUE, <<1>>)

Body(num, from, until, alg, list) == <<num, from, until, alg, list>>

TwoFiles == Sequence(<<FileAndHash(NameA, H1), FileAndHash(NameB, H2)>>)

\* Manifests of five elements: every window, algorithm and file list under
\* a well-formed number, then every number and every time field under a
\* well-formed remainder.
Bodies ==
    {Body(n, f, u, a, l) :
        n \in {SeqMax}, f \in Times, u \in Times, a \in Algs, l \in FileLists}
    \cup
    {Body(n, f, u, Oid(NID_sha256), TwoFiles) :
        n \in {SeqZero, SeqByte, SeqOver, SeqNeg, Octets(<<1>>)},
        f \in Times, u \in Times}
    \cup
    {Body(SeqByte, f, u, Oid(NID_sha256), TwoFiles) :
        f \in Times \cup {BadTime, Octets(<<1>>)},
        u \in Times \cup {BadTime, Octets(<<1>>)}}

GoodBody == Body(SeqByte, Time(0), Time(MaxTime), Oid(NID_sha256), TwoFiles)

Versions == {Integer(FALSE, <<0>>), Integer(FALSE, <<1>>), Integer(FALSE, <<2>>),
             ASN1(V_ASN1_INTEGER, FALSE, FALSE, <<>>, <<>>)}

EContents ==
    {Sequence(b) : b \in Bodies}
    \cup {Sequence(<<v>> \o GoodBody) : v \in Versions}
    \cup {Sequence(<<v>> \o Body(SeqByte, Time(0), Time(0), Oid(NID_sha256), TwoFiles)) :
             v \in Versions}
    \cup {BadSequence, Sequence(<<>>), Sequence(SubSeq(GoodBody, 1, 4)),
          Sequence(GoodBody \o <<Integer(FALSE, <<1>>)>>),
          Sequence(<<Integer(FALSE, <<1>>)>> \o GoodBody \o <<Integer(FALSE, <<1>>)>>)}

Aia == <<114, 115, 121, 110, 99>>    \* "rsync"
Aki == <<65, 49>>                    \* "A1"
Ski == <<66, 50>>                    \* "B2"

Certs == [aia : {NULL, Ptr(Aia)}, aki : {NULL, Ptr(Aki)}, ski : {NULL, Ptr(Ski)}]

GoodCert == [aia |-> Ptr(Aia), aki |-> Ptr(Aki), ski |-> Ptr(Ski)]

Env(ok, c, e) == [unwrap_ok |-> ok, cert |-> c, econtent |-> e]

Envs ==
    {Env(TRUE, GoodCert, e) : e \in EContents}
    \cup {Env(TRUE, c, Sequence(GoodBody)) : c \in Certs}
    \cup {Env(FALSE, GoodCert, Sequence(GoodBody))}

\* The arguments and environment of a call of mft_parse: every environment
\* under one path, the well-formed manifests under the other.
Inputs ==
    {[fn |-> FnDeep, env |-> e] : e \in Envs}
    \cup {[fn |-> FnShort, env |-> Env(TRUE, GoodCert, Sequence(
              Body(SeqByte, f, u, Oid(NID_sha256), TwoFiles)))] :
              f \in Times, u \in Times}

\* The repository directory of fn: each candidate file holds content whose
\* digest is H1 or H2, or is missing.
Dir(fn) == SubSeq(fn, 1, strrchr(fn, SLASH))

Disks(fn) ==
    UNION {[{Dir(fn) \o <<SLASH>> \o n : n \in S} -> {H1, H2}] :
              S \in SUBSET {NameA, NameB}}

(***************************************************************************)
(* The state machine.                                                      *)
(***************************************************************************)
Init ==
    /\ now \in Nows
    /\ input = NULL
    /\ x509 = NULL
    /\ cert = "none"
    /\ mft = NULL
    /\ last = NULL
    /\ heap = <<>>
    /\ wire = <<>>
    /\ rd = NULL
    /\ disk = <<>>
    /\ chk = NULL
    /\ frame = NULL
    /\ pc = "idle"

\* The caller's state once mft_parse has returned r on the input in.
Parsed(in, r) ==
    /\ input' = Ptr(in)
    /\ mft' = r.ret
    /\ x509' = r.x509
    /\ cert' = r.cert
    /\ heap' = r.heap
    /\ last' = Ptr([built |-> r.built, c |-> r.c,
                    validity |-> r.validity, warn |-> r.warn])

\* The caller parses the manifest at fn.
Parse ==
    /\ pc = "idle"
    /\ \E in \in Inputs : Parsed(in, mft_parse(in.fn, in.env, now, heap))
    /\ pc' = "parsed"
    /\ UNCHANGED <<now, wire, rd, disk, chk, frame>>

\* The caller's state once mft_check has ended with r.
Checked(r) ==
    /\ chk' = Ptr(r)
    /\ pc' = IF r.abort # NULL THEN "aborted" ELSE pc

\* The caller verifies the files of the manifest against the directory.
Check ==
    /\ pc = "parsed" /\ mft # NULL /\ chk = NULL /\ wire = <<>> /\ rd = NULL
    /\ \E d \in Disks(Deref(Deref(mft).file)) :
          /\ disk' = d
          /\ Checked(mft_check(Deref(Deref(mft).file), Deref(mft), d))
    /\ UNCHANGED <<now, input, x509, cert, mft, last, heap, wire, rd, frame>>

\* The caller sends the manifest down the pipe.
Buffer ==
    /\ pc = "parsed" /\ mft # NULL /\ wire = <<>> /\ rd = NULL
    /\ wire' = mft_buffer(<<>>, Deref(mft))
    /\ UNCHANGED <<now, input, x509, cert, mft, last, heap, rd, disk, chk, frame, pc>>

\* The peer's state once mft_read has ended with r.
HasRead(r) ==
    /\ rd' = r.p
    /\ wire' = r.fd
    /\ heap' = r.heap
    /\ pc' = IF r.abort # NULL THEN "aborted" ELSE pc

\* The peer reads the manifest from the pipe.
Read ==
    /\ pc # "aborted" /\ wire # <<>> /\ rd = NULL
    /\ HasRead(mft_read(wire, heap))
    /\ UNCHANGED <<now, input, x509, cert, mft, last, disk, chk, frame>>

\* The caller releases the manifest.
Free ==
    /\ pc = "parsed" /\ mft # NULL /\ wire = <<>>
    /\ heap' = mft_free(mft, heap)
    /\ mft' = NULL
    /\ pc' = "freed"
    /\ UNCHANGED <<now, input, x509, cert, last, wire, rd, disk, chk, frame>>

Next == Parse \/ Check \/ Buffer \/ Read \/ Free

Spec == Init /\ [][Next]_vars

(***************************************************************************)
(* The file list decoder one step at a time: mft_parse from the return of  *)
(* check_validity on, with mft_parse_flist stopped before every iteration  *)
(* of its loop, up to the disposal of the Manifest.                         *)
(***************************************************************************)
\* p.res when mft_parse_econtent reaches the validity window: the header is
\* set, files and filesz are as calloc left them.
HeaderMft ==
    [ZeroMft EXCEPT !.file = Ptr(FnDeep),
                    !.aia = x509_get_aia(GoodCert),
                    !.aki = x509_get_aki(GoodCert),
                    !.ski = x509_get_ski(GoodCert),
                    !.seqnum = Ptr(BN_bn2hex(ASN1_INTEGER_to_BN(SeqByte)))]

\* The fields of the content still to be looked at: the window and the list.
FlistInputs ==
    {[from |-> f, until |-> u, list |-> l] :
        f \in Times, u \in Times, l \in FileLists}

InitFlist ==
    /\ now \in Nows
    /\ input \in {Ptr(in) : in \in FlistInputs}
    /\ x509 = Ptr(GoodCert)
    /\ cert = "live"
    /\ mft = Ptr(HeaderMft)
    /\ last = NULL
    /\ heap = <<>>
    /\ wire = <<>>
    /\ rd = NULL
    /\ disk = <<>>
    /\ chk = NULL
    /\ frame = NULL
    /\ pc = "window"

\* rc = check_validity(...); if (rc != 1) goto out: a stale window leaves
\* mft_parse_econtent with 0, an invalid one with -1.
Window ==
    /\ pc = "window"
    /\ pc' = LET v == check_validity(Deref(input).from, Deref(input).until, now)
             IN  IF v.rc = 1 THEN "flist" ELSE IF v.rc = 0 THEN "stale" ELSE "fail"
    /\ UNCHANGED <<now, input, x509, cert, mft, last, heap, wire, rd, disk, chk, frame>>

\* The type test on the fileList and the head of mft_parse_flist: the
\* sequence is decoded and the array allocated.
FlistEnter ==
    /\ pc = "flist"
    /\ LET t == Deref(input).list
           seq == d2i_ASN1_SEQUENCE_ANY(t)
       IN  IF t.type # V_ASN1_SEQUENCE \/ seq = NULL
           THEN /\ pc' = "fail"
                /\ UNCHANGED <<mft, frame>>
           ELSE /\ mft' = Ptr(flist_calloc(Deref(mft), Len(Deref(seq))))
                /\ frame' = Ptr([seq |-> Deref(seq), i |-> 0])
                /\ pc' = "loop"
    /\ UNCHANGED <<now, input, x509, cert, last, heap, wire, rd, disk, chk>>

\* The state once mft_parse_filehash has returned r for element i.
Iterated(r) ==
    /\ mft' = Ptr(r.res)
    /\ heap' = r.heap
    /\ IF r.rc = 0
       THEN frame' = NULL /\ pc' = "fail"
       ELSE frame' = Ptr([Deref(frame) EXCEPT !.i = @ + 1]) /\ pc' = "loop"

\* One iteration of the loop of mft_parse_flist.
FlistIter ==
    /\ pc = "loop"
    /\ Deref(frame).i < Len(Deref(frame).seq)
    /\ IF Deref(frame).seq[Deref(frame).i + 1].type # V_ASN1_SEQUENCE
       THEN /\ frame' = NULL
            /\ pc' = "fail"
            /\ UNCHANGED <<mft, heap>>
       ELSE Iterated(mft_parse_filehash(Deref(mft), heap,
                Deref(frame).seq[Deref(frame).i + 1]))
    /\ UNCHANGED <<now, input, x509, cert, last, wire, rd, disk, chk>>

\* The loop ends: mft_parse_flist, mft_parse_econtent and mft_parse return
\* with success.
FlistDone ==
    /\ pc = "loop"
    /\ ~(Deref(frame).i < Len(Deref(frame).seq))
    /\ frame' = NULL
    /\ pc' = "parsed"
    /\ UNCHANGED <<now, input, x509, cert, mft, last, heap, wire, rd, disk, chk>>

\* The caller's state once the stale branch has left s.
Stripped(s) ==
    /\ mft' = Ptr(s.res)
    /\ heap' = s.heap

\* mft_parse_econtent returned 0: the stale branch of mft_parse.
StripStale ==
    /\ pc = "stale"
    /\ Stripped(strip_stale(Deref(mft), heap))
    /\ pc' = "parsed"
    /\ UNCHANGED <<now, input, x509, cert, last, wire, rd, disk, chk, frame>>

\* mft_parse_econtent returned -1: the exit path of mft_parse with rc == 0.
FailCleanup ==
    /\ pc = "fail"
    /\ heap' = mft_free(mft, heap)
    /\ mft' = NULL
    /\ cert' = "freed"
    /\ x509' = NULL
    /\ pc' = "parsed"
    /\ UNCHANGED <<now, input, last, wire, rd, disk, chk, frame>>

NextFlist ==
    Window \/ FlistEnter \/ FlistIter \/ FlistDone \/ StripStale
        \/ FailCleanup \/ Free

SpecFlist == InitFlist /\ [][NextFlist]_vars

(***************************************************************************)
(* Properties.                                                             *)
(***************************************************************************)
In == Deref(input)
Last == Deref(last)
M == Deref(mft)
R == Deref(rd)

\* The raw manifest content handed to the last mft_parse, and its elements.
Raw == In.env.econtent
RawFrom == Raw.seq[2]
RawUntil == Raw.seq[3]
RawAlg == Raw.seq[4]
RawList == Raw.seq[5]

\* mft_parse has returned and nothing was released since.
Returned == pc = "parsed" /\ mft # NULL

\* The entries of two manifests agree: same count, same filenames and
\* digests in the same order.
SameEntries(a, b) ==
    /\ a.filesz = b.filesz
    /\ \A i \in 1..a.filesz :
          /\ Deref(Deref(a.files)[i].file).str = Deref(Deref(b.files)[i].file).str
          /\ Deref(a.files)[i].hash = Deref(b.files)[i].hash

SameButSeqnum(a, b) ==
    /\ a.stale = b.stale
    /\ a.file = b.file
    /\ SameEntries(a, b)
    /\ a.aia = b.aia
    /\ a.aki = b.aki
    /\ a.ski = b.ski

\* C1 (as stated): mft_read of the bytes written by mft_buffer(m) yields a
\* Manifest equal to m in every field, the sequence number included.
C1_RoundTripEveryField ==
    (Returned /\ rd # NULL) => (SameButSeqnum(R, M) /\ R.seqnum = M.seqnum)

\* mft_read ended on a failed assertion.
ReadAborted == pc = "aborted" /\ (chk = NULL \/ Deref(chk).abort = NULL)

\* C1 (amended): mft_read of the bytes written by mft_buffer(m) passes its
\* assertions, consumes the bytes all and yields a Manifest equal to m in
\* the stale flag, the source path, the entry count, every entry's filename
\* and digest in order, and the three certificate fields; the sequence
\* number is not part of the byte stream and is NULL in the Manifest read.
C1_RoundTripButSeqnum ==
    /\ ~ReadAborted
    /\ (Returned /\ rd # NULL) =>
          /\ SameButSeqnum(R, M)
          /\ wire = <<>>
          /\ R.seqnum = NULL
          /\ M.seqnum # NULL

\* A manifest of two entries went through the pipe.
C1_Witness ==
    Returned /\ rd # NULL /\ M.stale = 0 /\ M.filesz = 2 /\ R.filesz = 2

\* C2: when check_validity classifies the window Stale, mft_parse returns
\* a Manifest with stale = 1, filesz = 0 and files = NULL whatever the raw
\* file list holds; and every Manifest returned with stale = 1 has
\* filesz = 0.
C2_StaleCarriesNoFiles ==
    /\ (pc = "parsed" /\ Last.validity = Ptr(0)) =>
          /\ RawFrom.data[1] <= RawUntil.data[1]
          /\ RawFrom.data[1] <= now
          /\ RawUntil.data[1] < now
          /\ mft # NULL
          /\ M.stale = 1 /\ M.filesz = 0 /\ M.files = NULL
    /\ (Returned /\ M.stale = 1) => M.filesz = 0
    /\ (Returned /\ M.stale = 0) => Last.validity = Ptr(1)

\* A stale manifest whose raw file list holds two entries was returned.
C2_Witness ==
    /\ Returned /\ M.stale = 1 /\ M.filesz = 0
    /\ RawList.type = V_ASN1_SEQUENCE /\ Len(RawList.seq) = 2

\* The classification the claim states, on the raw time fields.
Classify(from, until, tnow) ==
    IF ~from.ok \/ ~until.ok THEN -1
    ELSE IF until.data[1] < from.data[1] \/ from.data[1] > tnow THEN -1
    ELSE IF until.data[1] < tnow THEN 0
    ELSE 1

\* C3 (as stated): check_validity is a total three-way classification of
\* (valid-from, valid-until, now): it returns -1 when a time fails to parse,
\* when valid-until < valid-from or when valid-from > now; otherwise 0 when
\* valid-until < now; otherwise 1.  Invalid takes precedence over Stale and
\* the boundaries are inclusive.
C3_ValidityClassification ==
    (last # NULL /\ Last.validity # NULL) =>
        /\ Deref(Last.validity) = Classify(RawFrom, RawUntil, now)
        /\ (RawFrom.ok /\ RawUntil.ok /\ RawUntil.data[1] < RawFrom.data[1])
              => Deref(Last.validity) = -1
        /\ (RawFrom.ok /\ RawUntil.ok /\ RawFrom.data[1] = now
              /\ RawUntil.data[1] = now) => Deref(Last.validity) = 1

\* The current time has a calendar form: it is no later than the latest
\* instant the model lets gmtime_r convert.
NowConverts == now <= MaxTime

\* C3 (amended): check_validity returns -1 when the current time cannot be
\* converted to calendar form, whatever the window; when it can, it
\* returns -1 when a time fails to parse, when valid-until < valid-from or
\* when valid-from > now; otherwise 0 when valid-until < now; otherwise 1.
\* Invalid takes precedence over Stale and the boundaries are inclusive.
C3_ClassificationWhenNowConverts ==
    (last # NULL /\ Last.validity # NULL) =>
        /\ ~NowConverts =>
              /\ Deref(Last.validity) = -1
              /\ Last.warn = "could not get current time"
        /\ NowConverts =>
              /\ Deref(Last.validity) = Classify(RawFrom, RawUntil, now)
              /\ Last.warn # "could not get current time"
              /\ (RawFrom.ok /\ RawUntil.ok /\ RawUntil.data[1] < RawFrom.data[1])
                    => Deref(Last.validity) = -1
              /\ (RawFrom.ok /\ RawUntil.ok /\ RawFrom.data[1] = now
                    /\ RawUntil.data[1] = now) => Deref(Last.validity) = 1

\* A well-formed window that lies in the past was classified at a current
\* time that has no calendar form: Invalid, where the three-way
\* classification says Stale.
C3_Witness ==
    /\ last # NULL /\ Last.validity = Ptr(-1) /\ ~NowConverts
    /\ RawFrom.ok /\ RawUntil.ok
    /\ RawFrom.data[1] <= RawUntil.data[1] /\ RawUntil.data[1] < now
    /\ Classify(RawFrom, RawUntil, now) = 0

Built == Deref(Last.built)

\* mft_parse got past the envelope and came back with NULL.
FailedAfterUnwrap == pc = "parsed" /\ mft = NULL /\ In.env.unwrap_ok

\* C4: on every failure path after the envelope has been unwrapped
\* mft_parse returns NULL, the Manifest built so far is released with
\* exactly the filenames stored in files[0..filesz-1] (no string stays
\* allocated, none is released twice), the certificate is freed and *x509
\* is NULL; a Manifest that is returned is never partially populated.
C4_FailureIsAllOrNothing ==
    /\ FailedAfterUnwrap =>
          /\ x509 = NULL /\ cert = "freed"
          /\ Last.built # NULL
          /\ \A a \in 1..Len(heap) : heap[a] = "freed"
          /\ Built.files # NULL =>
                \A i \in 1..Len(Deref(Built.files)) :
                    IF i <= Built.filesz
                    THEN /\ Deref(Built.files)[i].file # NULL
                         /\ heap[Deref(Deref(Built.files)[i].file).addr] = "freed"
                    ELSE Deref(Built.files)[i].file = NULL
    /\ Returned =>
          /\ x509 # NULL /\ cert = "live"
          /\ Last.c \in {Ptr(0), Ptr(1)}
          /\ M.file # NULL /\ M.seqnum # NULL
          /\ M.aia # NULL /\ M.aki # NULL /\ M.ski # NULL
          /\ M.stale = 0 =>
                /\ M.files # NULL
                /\ M.filesz = Len(RawList.seq)
                /\ Len(Deref(M.files)) = M.filesz
                /\ \A i \in 1..M.filesz :
                      /\ Deref(M.files)[i].file # NULL
                      /\ heap[Deref(Deref(M.files)[i].file).addr] = "live"

\* mft_parse failed on the second entry of the list, one filename stored.
C4_Witness ==
    /\ FailedAfterUnwrap /\ Last.built # NULL
    /\ Built.filesz = 1 /\ Len(heap) = 2

Least(S) == CHOOSE x \in S : \A y \in S : x <= y

\* The significant octets of an integer's content: those from the first
\* non-zero octet on.
Significant(data) ==
    LET nz == {i \in 1..Len(data) : data[i] # 0}
    IN  IF nz = {} THEN <<>> ELSE SubSeq(data, Least(nz), Len(data))

HexDigits == (48..57) \cup (65..70)
HexDigitValue(c) == IF c >= 65 THEN c - 55 ELSE c - 48

\* The octets a hexadecimal string stands for ("0" is zero: no octet).
HexDecode(str) ==
    IF str = <<48>> THEN <<>>
    ELSE [i \in 1..(Len(str) \div 2) |->
             16 * HexDigitValue(str[2 * i - 1]) + HexDigitValue(str[2 * i])]

RawNum == Raw.seq[1]

\* The last mft_parse got as far as decoding the manifestNumber.
ReachedSeqnum ==
    /\ last # NULL /\ In.env.unwrap_ok /\ Last.c # NULL
    /\ Raw.ok /\ Len(Raw.seq) = 5 /\ RawNum.type = V_ASN1_INTEGER

\* C5: decoding fails when the manifestNumber is negative and when its
\* magnitude needs more than 20 octets; every non-negative value of at most
\* 20 octets (zero, exactly 20 octets) is accepted, and the seqnum of the
\* Manifest is the hexadecimal encoding of exactly that value.
C5_SequenceNumberBounds ==
    ReachedSeqnum =>
        LET sig == Significant(RawNum.data)
        IN  IF RawNum.neg /\ sig # <<>>
            THEN /\ Last.c = Ptr(-1)
                 /\ Last.warn = "manifestNumber: want positive integer, have negative"
            ELSE IF Len(sig) > 20
            THEN /\ Last.c = Ptr(-1)
                 /\ Last.warn = "manifestNumber: want 20 or less than octets, have more"
            ELSE /\ Last.warn \notin
                       {"manifestNumber: want positive integer, have negative",
                        "manifestNumber: want 20 or less than octets, have more"}
                 /\ Built.seqnum # NULL
                 /\ \A k \in 1..Len(Deref(Built.seqnum)) :
                        Deref(Built.seqnum)[k] \in HexDigits
                 /\ Deref(Built.seqnum) # <<48>> => Len(Deref(Built.seqnum)) % 2 = 0
                 /\ HexDecode(Deref(Built.seqnum)) = sig
                 /\ Returned => M.seqnum = Built.seqnum

\* A Manifest whose number needs exactly 20 octets was returned.
C5_Witness ==
    /\ Returned /\ ReachedSeqnum
    /\ Len(Significant(RawNum.data)) = 20
    /\ Len(Deref(M.seqnum)) = 40

\* The C string held in `data`: the characters before the first NUL.
CString(data) ==
    LET z == {i \in 1..Len(data) : data[i] = 0}
    IN  IF z = {} THEN data ELSE SubSeq(data, 1, Least(z) - 1)

\* The last mft_parse got as far as walking the file list.
ReachedList ==
    /\ last # NULL /\ Last.validity = Ptr(1)
    /\ RawAlg.type = V_ASN1_OBJECT /\ RawAlg.data = <<NID_sha256>>
    /\ RawList.type = V_ASN1_SEQUENCE /\ RawList.ok

\* A FileAndHash of the right shape: an IA5 string and a bit string.
Shaped(e) ==
    /\ e.type = V_ASN1_SEQUENCE /\ e.ok /\ Len(e.seq) = 2
    /\ e.seq[1].type = V_ASN1_IA5STRING
    /\ e.seq[2].type = V_ASN1_BIT_STRING

BadName(e) ==
    \/ \E k \in 1..Len(CString(e.seq[1].data)) : CString(e.seq[1].data)[k] = 47
    \/ Len(CString(e.seq[1].data)) <= 4

BadDigest(e) == Len(e.seq[2].data) # 32

\* C6: mft_parse_filehash rejects an entry whose filename contains '/',
\* whose filename length is <= 4 or whose digest is not exactly 32 bytes,
\* and accepts a name of 5 characters or more without separator with a
\* 32-byte digest; every entry of a returned Manifest has a name without
\* '/', longer than 4, and a 32-byte digest.
C6_FileEntryInvariants ==
    /\ ReachedList =>
          /\ \A i \in 1..Len(RawList.seq) :
                (Shaped(RawList.seq[i])
                   /\ (BadName(RawList.seq[i]) \/ BadDigest(RawList.seq[i])))
                => (Last.c = Ptr(-1) /\ Built.filesz < i)
          /\ (\A i \in 1..Len(RawList.seq) :
                 /\ Shaped(RawList.seq[i])
                 /\ ~BadName(RawList.seq[i]) /\ ~BadDigest(RawList.seq[i]))
             => (Last.c = Ptr(1) /\ Built.filesz = Len(RawList.seq))
    /\ Returned =>
          \A i \in 1..M.filesz :
              LET name == Deref(Deref(M.files)[i].file).str
              IN  /\ \A k \in 1..Len(name) : name[k] # 47 /\ name[k] # 0
                  /\ Len(name) > 4
                  /\ Len(Deref(M.files)[i].hash) = 32
                  /\ name = CString(RawList.seq[i].seq[1].data)
                  /\ Deref(M.files)[i].hash = RawList.seq[i].seq[2].data

\* A Manifest holding an entry with a 5-character name was returned.
C6_Witness ==
    /\ Returned /\ M.filesz = 2
    /\ Len(RawList.seq[1].seq[1].data) = 5
    /\ Len(Deref(Deref(M.files)[1].file).str) = 5

\* The directory of a path: what precedes its last '/'.
DirOf(fn) ==
    CHOOSE d \in {SubSeq(fn, 1, k) : k \in 0..(Len(fn) - 1)} :
        /\ fn[Len(d) + 1] = 47
        /\ \A j \in (Len(d) + 2)..Len(fn) : fn[j] # 47

\* Entry i (1-based) of the manifest matches the file on disk.
Matches(i) ==
    LET path == DirOf(Deref(M.file)) \o <<47>> \o Deref(Deref(M.files)[i].file).str
    IN  path \in DOMAIN disk /\ disk[path] = Deref(M.files)[i].hash

\* C7: on the path of a manifest mft_parse returned (it holds a '/' and
\* is short) mft_check runs to its end and calls the digest primitive exactly
\* once for every entry 0..filesz-1 in order, also after a mismatch, on the
\* manifest's directory followed by '/' and the entry's filename; it
\* succeeds if and only if every entry matched, and reports exactly the
\* mismatching entries.
C7_CheckIsNonAborting ==
    /\ chk # NULL => (Deref(chk).abort = NULL /\ pc # "aborted")
    /\ (Returned /\ chk # NULL) =>
        LET c == Deref(chk)
        IN  /\ Len(c.calls) = M.filesz
            /\ \A i \in 1..M.filesz :
                  /\ c.calls[i].path =
                        DirOf(Deref(M.file)) \o <<47>>
                            \o Deref(Deref(M.files)[i].file).str
                  /\ c.calls[i].hash = Deref(M.files)[i].hash
            /\ (c.rc # 0) <=> (\A i \in 1..M.filesz : Matches(i))
            /\ \A i \in 1..M.filesz :
                  (\E k \in 1..Len(c.warned) : c.warned[k] = i - 1) <=> ~Matches(i)
            /\ \A j, k \in 1..Len(c.warned) : j < k => c.warned[j] < c.warned[k]

\* Two entries were checked: the first matched, the second did not.
C7_Witness ==
    /\ Returned /\ chk # NULL /\ M.filesz = 2
    /\ Matches(1) /\ ~Matches(2)
    /\ Deref(chk).rc = 0 /\ Deref(chk).warned = <<1>>

\* The digest algorithm and the file list of the raw content are as the
\* grammar wants them: an object identifier naming SHA-256 and a sequence
\* whose every element is a well-formed FileAndHash.
WellFormedRest ==
    /\ RawAlg.type = V_ASN1_OBJECT /\ RawAlg.data = <<NID_sha256>>
    /\ RawList.type = V_ASN1_SEQUENCE /\ RawList.ok
    /\ \A i \in 1..Len(RawList.seq) :
          /\ Shaped(RawList.seq[i])
          /\ ~BadName(RawList.seq[i]) /\ ~BadDigest(RawList.seq[i])

\* C8: for every content that passes the element-count, sequence-number
\* and time-field type checks and whose window is Valid or Stale, mft_parse
\* fails unless the digest algorithm is SHA-256 and every element of the
\* file list is a well-formed FileAndHash.
C8_NoGrammarErrorSkipped ==
    (pc = "parsed" /\ Last.validity \in {Ptr(0), Ptr(1)} /\ ~WellFormedRest)
        => mft = NULL

\* C9: decoding fails when the top-level sequence has an element count
\* other than 5 or 6, and fails for every 6-element manifest whatever the
\* version field holds (0: incorrect encoding, any other value: not
\* supported, undecodable: rejected); every Manifest returned came from a
\* content of exactly 5 elements.
C9_ShapeAndVersion ==
    /\ (last # NULL /\ In.env.unwrap_ok /\ Last.c # NULL /\ Raw.ok) =>
          /\ Len(Raw.seq) \notin {5, 6} =>
                /\ Last.c = Ptr(-1)
                /\ Last.warn = "Manifest: want 5 or 6 elements"
          /\ Len(Raw.seq) = 6 =>
                /\ Last.c = Ptr(-1)
                /\ Built.seqnum = NULL
                /\ Last.warn =
                      IF ~Raw.seq[1].ok THEN "version: failed to decode"
                      ELSE IF Raw.seq[1].data = <<0>>
                      THEN "incorrect encoding for version 0"
                      ELSE "version not supported (yet)"
    /\ pc = "parsed" /\ last # NULL /\ Last.c = Ptr(-1) => mft = NULL
    /\ Returned => (Raw.ok /\ Len(Raw.seq) = 5)

\* A manifest carrying the explicit version 0 before an otherwise
\* well-formed content was rejected.
C9_Witness ==
    /\ pc = "parsed" /\ mft = NULL /\ In.env.unwrap_ok
    /\ Raw.ok /\ Len(Raw.seq) = 6 /\ Raw.seq[1].data = <<0>>
    /\ Raw.seq[3].data = <<0>> /\ Raw.seq[4].data = <<MaxTime>>
    /\ Last.warn = "incorrect encoding for version 0"

\* C10: mft_parse fails when the certificate lacks the AIA, the AKI or the
\* SKI; every Manifest returned, Valid or Stale, has the fn argument as its
\* source path and non-null seqnum, aia, aki and ski, and the stale
\* stripping changes nothing but stale, files and filesz.
C10_HeaderAlwaysPresent ==
    /\ (pc = "parsed" /\ In.env.unwrap_ok
          /\ (In.env.cert.aia = NULL \/ In.env.cert.aki = NULL
                \/ In.env.cert.ski = NULL)) =>
          /\ mft = NULL
          /\ Last.warn = "missing AIA, AKI or SKI X509 extension"
    /\ Returned =>
          /\ M.file = Ptr(In.fn)
          /\ M.seqnum # NULL
          /\ M.aia # NULL /\ M.aia = In.env.cert.aia
          /\ M.aki # NULL /\ M.aki = In.env.cert.aki
          /\ M.ski # NULL /\ M.ski = In.env.cert.ski
          /\ M.stale \in {0, 1}
          /\ M.stale = 0 => M = Built
          /\ M.stale = 1 =>
                /\ Built.stale = 0
                /\ M = [Built EXCEPT !.stale = 1, !.files = NULL, !.filesz = 0]

\* A stale Manifest was returned with its header.
C10_Witness ==
    /\ Returned /\ M.stale = 1
    /\ M.file = Ptr(In.fn) /\ M.seqnum # NULL
    /\ M.aia = Ptr(Aia) /\ M.aki = Ptr(Aki) /\ M.ski = Ptr(Ski)

\* An element of the raw file list that the decoder has to reject.
ElementFails(e) == ~Shaped(e) \/ BadName(e) \/ BadDigest(e)

\* C11: when mft_parse_flist succeeds on a list of n elements, filesz = n
\* and files[i] holds the filename and the digest of element i for every
\* i < n, in the order of the manifest; two elements with the same filename
\* are both kept and cause no failure; when any element fails,
\* mft_parse_flist fails and mft_parse returns no Manifest.
C11_OrderAndCountPreserved ==
    ReachedList =>
        /\ Last.c \in {Ptr(1), Ptr(-1)}
        /\ Last.c = Ptr(1) =>
              /\ Built.filesz = Len(RawList.seq)
              /\ Len(Deref(Built.files)) = Len(RawList.seq)
              /\ \A i \in 1..Len(RawList.seq) :
                    /\ Deref(Built.files)[i].file # NULL
                    /\ Deref(Deref(Built.files)[i].file).str =
                          CString(RawList.seq[i].seq[1].data)
                    /\ Deref(Built.files)[i].hash = RawList.seq[i].seq[2].data
              /\ pc = "parsed" => (mft # NULL /\ SameEntries(M, Built))
        /\ (\A i \in 1..Len(RawList.seq) : ~ElementFails(RawList.seq[i]))
              => Last.c = Ptr(1)
        /\ (\E i \in 1..Len(RawList.seq) : ElementFails(RawList.seq[i])) =>
              /\ Last.c = Ptr(-1)
              /\ pc = "parsed" => mft = NULL

\* A Manifest was returned whose two entries carry the same filename, each
\* in a string of its own.
C11_Witness ==
    /\ Returned /\ ReachedList /\ Last.c = Ptr(1)
    /\ Len(RawList.seq) = 2 /\ M.filesz = 2
    /\ Deref(Deref(M.files)[1].file).str = Deref(Deref(M.files)[2].file).str
    /\ Deref(Deref(M.files)[1].file).addr # Deref(Deref(M.files)[2].file).addr

\* The addresses of the filenames stored in files[0..filesz-1] of m.
StoredAddrs(m) ==
    IF m.files = NULL THEN {}
    ELSE {Deref(Deref(m.files)[k].file).addr : k \in 1..m.filesz}

\* C12: in every state reached while a file list of n elements is decoded,
\* the files array has capacity n and 0 <= filesz <= n; filesz is the
\* number of entries stored, each one a fully validated element of the
\* list, so every write files[filesz] fell inside the array and
\* files[0..filesz-1] hold non-null filenames while the entries after them
\* are untouched; the stored filenames are the strings allocated and not
\* yet released, and once the Manifest is disposed of (failure, stale
\* stripping or mft_free) every string was released exactly once.
C12_FileszWithinCapacity ==
    /\ \A a \in 1..Len(heap) : heap[a] \in {"live", "freed"}
    /\ mft # NULL =>
          /\ 0 <= M.filesz
          /\ M.files = NULL => (M.filesz = 0 /\ frame = NULL)
          /\ M.files # NULL =>
                /\ M.filesz <= Len(Deref(M.files))
                /\ Len(Deref(M.files)) = Len(In.list.seq)
                /\ \A k \in 1..Len(Deref(M.files)) :
                      IF k <= M.filesz
                      THEN /\ Deref(M.files)[k].file # NULL
                           /\ ~ElementFails(In.list.seq[k])
                           /\ Deref(Deref(M.files)[k].file).str =
                                 CString(In.list.seq[k].seq[1].data)
                      ELSE Deref(M.files)[k] = ZeroFile
                /\ Cardinality(StoredAddrs(M)) = M.filesz
          /\ frame # NULL =>
                /\ M.files # NULL
                /\ Deref(frame).i = M.filesz
                /\ Deref(frame).seq = In.list.seq
          /\ pc = "parsed" => (M.stale = 0 => M.filesz = Len(In.list.seq))
          /\ \A a \in 1..Len(heap) : heap[a] = "live" <=> a \in StoredAddrs(M)
    /\ mft = NULL => \A a \in 1..Len(heap) : heap[a] = "freed"

\* The loop has stored as many entries as the array holds and has not
\* left yet: filesz has reached the capacity.
C12_Witness ==
    /\ pc = "loop" /\ frame # NULL /\ mft # NULL
    /\ Len(Deref(M.files)) = 2 /\ M.filesz = 2
    /\ Len(heap) = 2

====
